---------------------------- MODULE Spec2Model ----------------------------
(***************************************************************************)
(* A model of script/collect.ts: the documentation collector that selects *)
(* the supported release branches, prunes the content tree and refetches   *)
(* the English documents.                                                  *)
(*                                                                         *)
(* JavaScript strings are sequences of one-character strings, so that      *)
(* slice, replace, match, charAt, startsWith, includes, sort and toString  *)
(* are computed the way the engine computes them.                          *)
(***************************************************************************)
EXTENDS Naturals, Sequences, FiniteSets

(***************************************************************************)
(* Bounds of the model.                                                    *)
(***************************************************************************)
\* largest branch list the selector is tried on
MaxBranches == 6
\* most unprotected branches in such a list
MaxUnprotected == 1
\* most version directories under content/ when a run starts
MaxDisk == 3
\* largest branch list the remote returns in a whole run
MaxRemote == 2

(***************************************************************************)
(* Strings.                                                                *)
(***************************************************************************)
\* The characters that occur, in the order of their UTF-16 code units.
Chars ==
  << "," , "-", ".", "/",
     "0", "1", "2", "3", "4", "5", "6", "7", "8", "9",
     "a", "b", "c", "d", "e", "f", "g", "h", "i", "j", "k", "l", "m",
     "n", "o", "p", "q", "r", "s", "t", "u", "v", "w", "x", "y", "z" >>

Code(c) == CHOOSE i \in 1..Len(Chars) : Chars[i] = c

Digits == {"0", "1", "2", "3", "4", "5", "6", "7", "8", "9"}

IsDigit(c) == c \in Digits

Min(a, b) == IF a < b THEN a ELSE b

\* a < b as Array.prototype.sort() orders strings: by code unit, a proper
\* prefix first.
StrLess(a, b) ==
  \E i \in 1..(Min(Len(a), Len(b)) + 1) :
     /\ \A j \in 1..(i - 1) : a[j] = b[j]
     /\ \/ i = Len(a) + 1 /\ i <= Len(b)
        \/ i <= Len(a) /\ i <= Len(b) /\ Code(a[i]) < Code(b[i])

\* The ascending sequence of a set of distinct strings.
RECURSIVE SortStrings(_)
SortStrings(S) ==
  IF S = {} THEN << >>
  ELSE LET m == CHOOSE x \in S : \A y \in S \ {x} : StrLess(x, y)
       IN  << m >> \o SortStrings(S \ {m})

\* s.startsWith(p)
StartsWith(s, p) == Len(p) <= Len(s) /\ SubSeq(s, 1, Len(p)) = p

\* s.includes(p)
Includes(s, p) ==
  \E i \in 1..(Len(s) + 1) :
     i + Len(p) - 1 <= Len(s) /\ SubSeq(s, i, i + Len(p) - 1) = p

\* s.slice(from, to) for 0 <= from <= to (0-based, to exclusive)
Slice(s, from, to) == SubSeq(s, from + 1, Min(to, Len(s)))

\* arr.toString(): the elements joined by commas
RECURSIVE ArrayToString(_)
ArrayToString(arr) ==
  IF arr = << >> THEN << >>
  ELSE IF Len(arr) = 1 THEN arr[1]
  ELSE arr[1] \o << "," >> \o ArrayToString(Tail(arr))

\* the elements of an array
SeqRange(s) == { s[i] : i \in 1..Len(s) }

\* arr.filter(x => !drop.includes(x))
RECURSIVE Without(_, _)
Without(arr, drop) ==
  IF arr = << >> THEN << >>
  ELSE (IF arr[1] \in drop THEN << >> ELSE << arr[1] >>)
         \o Without(Tail(arr), drop)

(***************************************************************************)
(* Names.                                                                  *)
(***************************************************************************)
current == << "c", "u", "r", "r", "e", "n", "t" >>
master == << "m", "a", "s", "t", "e", "r" >>
b_1_8_x == << "1", "-", "8", "-", "x" >>
b_2_0_x == << "2", "-", "0", "-", "x" >>
b_3_0_x == << "3", "-", "0", "-", "x" >>
b_3_1_x == << "3", "-", "1", "-", "x" >>
b_4_0_x == << "4", "-", "0", "-", "x" >>
b_5_0_x == << "5", "-", "0", "-", "x" >>
b_10_1_x == << "1", "0", "-", "1", "-", "x" >>
b_8_x_y == << "8", "-", "x", "-", "y" >>
b_9_x_y == << "9", "-", "x", "-", "y" >>
b_11_x_y == << "1", "1", "-", "x", "-", "y" >>
b_v1_2_x == << "v", "1", "-", "2", "-", "x" >>

t_v3_1_0 == << "v", "3", ".", "1", ".", "0" >>
t_v4_0_1 == << "v", "4", ".", "0", ".", "1" >>
t_v2_0_16 == << "v", "2", ".", "0", ".", "1", "6" >>
t_v10_1_0 == << "v", "1", "0", ".", "1", ".", "0" >>
t_v10d1d0 == << "v", "1", "0", "-", "1", "-", "0" >>

NUM_SUPPORTED_VERSIONS == 4

(***************************************************************************)
(* The Branch Selector.                                                    *)
(***************************************************************************)
\* s.replace(/\./, '-'): the first dot becomes a dash
ReplaceFirstDot(s) ==
  IF \E i \in 1..Len(s) : s[i] = "."
  THEN LET i == CHOOSE k \in 1..Len(s) :
                  s[k] = "." /\ \A j \in 1..(k - 1) : s[j] # "."
       IN  [s EXCEPT ![i] = "-"]
  ELSE s

\* s.replace(/\.[0-9]/, '-x'): the first dot followed by a digit, and that
\* digit, become "-x"
DotDigitAt(s, k) == k + 1 <= Len(s) /\ s[k] = "." /\ IsDigit(s[k + 1])

ReplaceDotDigit(s) ==
  IF \E i \in 1..Len(s) : DotDigitAt(s, i)
  THEN LET i == CHOOSE k \in 1..Len(s) :
                  DotDigitAt(s, k) /\ \A j \in 1..(k - 1) : ~DotDigitAt(s, j)
       IN  [[s EXCEPT ![i] = "-"] EXCEPT ![i + 1] = "x"]
  ELSE s

\* const currentVersion = current.slice(1, 6).replace(..).replace(..)
CurrentVersion(tag) == ReplaceDotDigit(ReplaceFirstDot(Slice(tag, 1, 6)))

\* a slip: the pattern only at the start of the name, as /^[0-9]-[0-9]-x/
MatchesAtStart(name) ==
  /\ 5 <= Len(name)
  /\ IsDigit(name[1]) /\ name[2] = "-"
  /\ IsDigit(name[3]) /\ name[4] = "-" /\ name[5] = "x"

\* branch.name.match(/[0-9]-[0-9]-x/): the pattern anywhere in the name
MatchesVersionPattern(name) ==
  \E i \in 1..Len(name) :
     /\ i + 4 <= Len(name)
     /\ IsDigit(name[i]) /\ name[i + 1] = "-"
     /\ IsDigit(name[i + 2]) /\ name[i + 3] = "-" /\ name[i + 4] = "x"

\* resp.data.filter(protected && match).map(name), then .sort()
SortedBranches(resp) ==
  SortStrings({ b.name : b \in { r \in resp :
                                   r.protected /\ MatchesVersionPattern(r.name) } })

\* branches.forEach(branch => (filtered[branch.charAt(0)] = branch)): the
\* object as its keys in insertion order and its values
RECURSIVE FilteredFrom(_, _)
FilteredFrom(branches, obj) ==
  IF branches = << >> THEN obj
  ELSE LET b == branches[1]
           k == b[1]
           keys == IF k \in SeqRange(obj.keys) THEN obj.keys
                   ELSE Append(obj.keys, k)
           vals == [x \in DOMAIN obj.vals \cup {k} |->
                      IF x = k THEN b ELSE obj.vals[x]]
       IN  FilteredFrom(Tail(branches), [keys |-> keys, vals |-> vals])

Filtered(branches) ==
  FilteredFrom(branches, [keys |-> << >>, vals |-> << >>])

\* Object.values(): integer-like keys first, ascending, then the other keys
\* in insertion order
RECURSIVE SortDigits(_)
SortDigits(S) ==
  IF S = {} THEN << >>
  ELSE LET m == CHOOSE x \in S : \A y \in S : Code(x) <= Code(y)
       IN  << m >> \o SortDigits(S \ {m})

ObjectValues(obj) ==
  LET order == SortDigits(SeqRange(obj.keys) \cap Digits)
                 \o Without(obj.keys, Digits)
  IN  [i \in 1..Len(order) |-> obj.vals[order[i]]]

\* a slip: arr.slice(0, n), the first n
FirstN(arr, n) == IF Len(arr) <= n THEN arr ELSE SubSeq(arr, 1, n)

\* arr.slice(-n)
LastN(arr, n) ==
  IF Len(arr) <= n THEN arr ELSE SubSeq(arr, Len(arr) - n + 1, Len(arr))

\* .filter(arr => arr !== currentVersion && arr !== 'current')
FilteredBranches(tag, resp) ==
  Without(LastN(ObjectValues(Filtered(SortedBranches(resp))),
                NUM_SUPPORTED_VERSIONS),
          {CurrentVersion(tag), current})

(***************************************************************************)
(* The run: its state.                                                     *)
(***************************************************************************)
VARIABLES
  pc,               \* the step main() is about to run, or how it ended
  release,          \* let release: IResponse
  remoteRelease,    \* what github.repos.getReleaseByTag answers
  remoteBranches,   \* what github.repos.listBranches answers
  remoteDocs,       \* the filenames electronDocs(ref) answers
  packageJson,      \* the cached require('../package.json') object
  pkgFile,          \* package.json on disk
  content,          \* content/<dir>/en-US: the files of each directory
  crowdinYml,       \* the versions of crowdin.yml's generated table
  pendingDel,       \* the del() of delUnsupportedBranches, not awaited
  exitCode,         \* the process's exit status, NotExited while it runs
  handlerRan,       \* main().catch ran
  selected,         \* history: what getSupportedBranches wrote
  onDisk,           \* history: what delUnsupportedBranches read in content/
  pruned,           \* history: the directories the pruner's del removed
  pruneEffectAt,    \* history: pc when the pruner's del took effect
  written,          \* history: every file written, with pass and ref
  seen,             \* history: the lists delContent and the loops went over
  failures,         \* history: the operations that failed
  completed,        \* history: the steps of main() that completed
  ranAfterFailure   \* history: a step completed after an operation failed

vars ==
  << pc, release, remoteRelease, remoteBranches, remoteDocs, packageJson,
     pkgFile, content, crowdinYml, pendingDel, exitCode, handlerRan,
     selected, onDisk, pruned, pruneEffectAt, written, seen, failures,
     completed, ranAfterFailure >>

\* what the remote services answer: fixed during a run
remote == << remoteRelease, remoteBranches, remoteDocs >>

\* the pruner's part of the history
pruning == << onDisk, pruned, pruneEffectAt >>

Steps ==
  << "fetchRelease", "getSupportedBranches", "delUnsupportedBranches",
     "delContent", "fetchAPIDocsFromLatestStableRelease",
     "fetchAPIDocsFromSupportedVersions", "fetchApiData",
     "getMasterBranchCommit", "fetchTutorialsFromMasterBranch",
     "fetchTutorialsFromSupportedBranch", "fetchWebsiteContent" >>

StepIndex(step) == CHOOSE i \in 1..Len(Steps) : Steps[i] = step

\* the step after `step`, "returned" after the last
NextStep(step) ==
  IF StepIndex(step) = Len(Steps) THEN "returned"
  ELSE Steps[StepIndex(step) + 1]

\* the exit status: none while the process runs
NotExited == << >>
ExitStatus(n) == << n >>
NoRelease == [tag_name |-> << >>, assets |-> {}]
NoDel == [active |-> FALSE, path |-> << >>]
\* a list not computed or not gone over yet (no list holds the empty name)
NotYet == << << >> >>
Nowhere == "none"

(***************************************************************************)
(* Files.                                                                  *)
(***************************************************************************)
f_api_app == << "a", "p", "i", "/", "a", "p", "p" >>
f_api_images_a == << "a", "p", "i", "/", "i", "m", "a", "g", "e", "s", "/", "a" >>
f_images_b == << "i", "m", "a", "g", "e", "s", "/", "b" >>
f_t_images_c == << "t", "/", "i", "m", "a", "g", "e", "s", "/", "c" >>
f_t_d == << "t", "/", "d" >>
f_apix_e == << "a", "p", "i", "x", "/", "e" >>
f_old == << "a", "p", "i", "/", "o", "l", "d" >>

s_api == << "a", "p", "i", "/" >>
s_images == << "i", "m", "a", "g", "e", "s", "/" >>
s_docs == << "d", "o", "c", "s", "/" >>
s_electron_api_json ==
  << "e", "l", "e", "c", "t", "r", "o", "n", "-", "a", "p", "i", ".",
     "j", "s", "o", "n" >>
s_website_locale_yml ==
  << "w", "e", "b", "s", "i", "t", "e", "/", "l", "o", "c", "a", "l", "e",
     ".", "y", "m", "l" >>

DocNames ==
  { f_api_app, f_api_images_a, f_images_b, f_t_images_c, f_t_d, f_apix_e }

\* doc.filename.startsWith('api/')
IsApiDoc(filename) == StartsWith(filename, s_api)

\* a slip: the api/ filter forgotten
IsNotImage(filename) == ~Includes(filename, s_images)

\* !doc.filename.startsWith('api/') then !doc.filename.includes('images/')
IsTutorialDoc(filename) ==
  ~StartsWith(filename, s_api) /\ ~Includes(filename, s_images)

\* path.join(basepath, 'docs', doc.filename), below basepath
DocPath(filename) == s_docs \o filename

\* mkdir(path.dirname(filename)); fs.writeFileSync(filename, ..) for each
\* file of `files`, below content/<dir>/en-US for each dir of `dirs`
WriteFiles(tree, dirs, files) ==
  IF files = {} THEN tree
  ELSE [d \in DOMAIN tree \cup dirs |->
          IF d \in dirs
          THEN (IF d \in DOMAIN tree THEN tree[d] ELSE {}) \cup files
          ELSE tree[d]]

\* await del(<content/dir/en-US>) for each dir of `dirs`
DelEnglish(tree, dirs) ==
  [d \in DOMAIN tree |-> IF d \in dirs THEN {} ELSE tree[d]]

\* pkg[key] = value, of writeToPackageJSON
SetKey(pkg, key, value) == [pkg EXCEPT ![key] = value]

\* the write log of one pass: the docs of each ref of `refs` into `dir`
\* (into the ref's own directory when dir is Own)
Own == << >>

Log(pass, refs, dir, files) ==
  { [pass |-> pass, ref |-> r, dir |-> IF dir = Own THEN r ELSE dir,
     file |-> f,
     path |-> IF pass \in {"api", "tutorial"} THEN DocPath(f) ELSE f] :
    r \in refs, f \in files }

(***************************************************************************)
(* The run: main() and the top-level handler.                              *)
(***************************************************************************)
\* `await step()` returned: main() goes on to the next line
Resolve(step) ==
  /\ pc' = NextStep(step)
  /\ completed' = completed + 1
  /\ ranAfterFailure' = (ranAfterFailure \/ failures # {})
  /\ UNCHANGED failures

\* `await step()` threw: main()'s promise rejects
Reject(step) ==
  /\ pc' = "rejected"
  /\ failures' = failures \cup {step}
  /\ UNCHANGED << completed, ranAfterFailure >>

\* main().catch(err => { console.log(..); process.exit(1) })
mainCatch ==
  /\ pc = "rejected"
  /\ pc' = "exited"
  /\ exitCode' = ExitStatus(1)
  /\ handlerRan' = TRUE
  /\ UNCHANGED << release, remote, packageJson, pkgFile, content, crowdinYml,
                  pendingDel, selected, pruning, written, seen, failures,
                  completed, ranAfterFailure >>

\* main() returned and nothing is pending: the process ends with status 0
processExit ==
  /\ pc = "returned"
  /\ ~pendingDel.active
  /\ pc' = "exited"
  /\ exitCode' = ExitStatus(0)
  /\ UNCHANGED << release, remote, packageJson, pkgFile, content, crowdinYml,
                  pendingDel, handlerRan, selected, pruning, written, seen,
                  failures, completed, ranAfterFailure >>

fetchRelease ==
  /\ pc = "fetchRelease"
  /\ \/ /\ release' = remoteRelease
        /\ Resolve("fetchRelease")
     \/ /\ Reject("fetchRelease")
        /\ UNCHANGED release
  /\ UNCHANGED << remote, packageJson, pkgFile, content, crowdinYml,
                  pendingDel, exitCode, handlerRan, selected, pruning,
                  written, seen >>

getSupportedBranches ==
  /\ pc = "getSupportedBranches"
  /\ \/ LET filteredBranches ==
              FilteredBranches(release.tag_name, remoteBranches)
        IN  /\ packageJson' =
                 SetKey(packageJson, "supportedVersions", filteredBranches)
            /\ pkgFile' = packageJson'
            /\ selected' = filteredBranches
            /\ Resolve("getSupportedBranches")
     \/ /\ Reject("getSupportedBranches")
        /\ UNCHANGED << packageJson, pkgFile, selected >>
  /\ UNCHANGED << release, remote, content, crowdinYml, pendingDel, exitCode,
                  handlerRan, pruning, written, seen >>

\* fs.readdirSync('content'): the names in the order libuv's scandir sorts
\* them (strcmp)
Readdir(tree) == SortStrings(DOMAIN tree)

\* arr.pop(): the array without its last element
Pop(arr) == IF arr = << >> THEN arr ELSE SubSeq(arr, 1, Len(arr) - 1)

\* a slip: versions.pop() forgotten
PushOnly(versions) == Append(versions, current)

\* versions.push('current'); ..; versions.pop(): the array afterwards
PushPop(versions) == Pop(Append(versions, current))

\* a slip: folders.pop() forgotten, 'current' counted
FoldersDifferUnpopped(dirs, versions) == Len(dirs) + 1 # Len(versions)

\* folders.length !== versions.length
FoldersDiffer(dirs, versions) == Len(dirs) # Len(versions)

\* folders.filter(x => !versions.includes(x)).toString(), 'current' pushed
Difference(dirs, versions) ==
  ArrayToString(Without(dirs, SeqRange(Append(versions, current))))

\* regerenerateCrowdinYAML: one generated block per version; no version,
\* no write
RegenerateCrowdinYAML(yml, versions) ==
  IF versions = << >> THEN yml ELSE versions

delUnsupportedBranches ==
  /\ pc = "delUnsupportedBranches"
  /\ LET versions == packageJson.supportedVersions
         dirs == Pop(Readdir(content))
     IN  /\ onDisk' = DOMAIN content
         /\ IF FoldersDiffer(dirs, versions)
            THEN /\ pendingDel' =
                      [active |-> TRUE, path |-> Difference(dirs, versions)]
                 /\ packageJson' =
                      SetKey(packageJson, "supportedVersions",
                             PushPop(versions))
                 /\ crowdinYml' =
                      RegenerateCrowdinYAML(crowdinYml, PushPop(versions))
            ELSE UNCHANGED << pendingDel, packageJson, crowdinYml >>
  /\ Resolve("delUnsupportedBranches")
  /\ UNCHANGED << release, remote, pkgFile, content, exitCode, handlerRan,
                  selected, pruned, pruneEffectAt, written, seen >>

\* path.join(__dirname, '..', 'content', difference): the directories of
\* the tree this names. The empty string names content/ itself.
DelTargets(tree, path) ==
  IF path = << >> THEN DOMAIN tree
  ELSE IF path \in DOMAIN tree THEN {path}
  ELSE {}

\* the del() that delUnsupportedBranches started takes effect
delResolves ==
  /\ pendingDel.active
  /\ pc # "exited"
  /\ LET gone == DelTargets(content, pendingDel.path)
     IN  /\ content' = [d \in DOMAIN content \ gone |-> content[d]]
         /\ pruned' = gone
  /\ pruneEffectAt' = pc
  /\ pendingDel' = NoDel
  /\ UNCHANGED << pc, release, remote, packageJson, pkgFile, crowdinYml,
                  exitCode, handlerRan, selected, onDisk, written, seen,
                  failures, completed, ranAfterFailure >>

\* the del() that delUnsupportedBranches started rejects: nothing awaits
\* it. The runtime warns and goes on, or ends the process with status 1
\* (the default since Node 15); main().catch is not involved.
delRejects ==
  /\ pendingDel.active
  /\ pc # "exited"
  /\ pendingDel' = NoDel
  /\ failures' = failures \cup {"del"}
  /\ \/ UNCHANGED << pc, exitCode >>
     \/ pc' = "exited" /\ exitCode' = ExitStatus(1)
  /\ UNCHANGED << release, remote, packageJson, pkgFile, content, crowdinYml,
                  handlerRan, selected, pruning, written, seen, completed,
                  ranAfterFailure >>

delContent ==
  /\ pc = "delContent"
  /\ LET branches == packageJson.supportedVersions
     IN  \/ /\ content' = DelEnglish(content, {current} \cup SeqRange(branches))
            /\ seen' = [seen EXCEPT !.delContent = branches]
            /\ Resolve("delContent")
         \/ /\ Reject("delContent")
            /\ UNCHANGED << content, seen >>
  /\ UNCHANGED << release, remote, packageJson, pkgFile, crowdinYml,
                  pendingDel, exitCode, handlerRan, selected, pruning,
                  written >>

\* docs.filter(doc => doc.filename.startsWith('api/'))
ApiDocs(docs) == { f \in docs : IsApiDoc(f) }

\* docs.filter(not api/).filter(not images/)
TutorialDocs(docs) == { f \in docs : IsTutorialDoc(f) }

DocPaths(docs) == { DocPath(f) : f \in docs }

fetchAPIDocsFromLatestStableRelease ==
  /\ pc = "fetchAPIDocsFromLatestStableRelease"
  /\ packageJson' =
       SetKey(packageJson, "electronLatestStableTag", release.tag_name)
  /\ pkgFile' = packageJson'
  /\ \/ /\ content' =
             WriteFiles(content, {current}, DocPaths(ApiDocs(remoteDocs)))
        /\ written' = written \cup
             Log("api", {release.tag_name}, current, ApiDocs(remoteDocs))
        /\ Resolve("fetchAPIDocsFromLatestStableRelease")
     \/ /\ Reject("fetchAPIDocsFromLatestStableRelease")
        /\ UNCHANGED << content, written >>
  /\ UNCHANGED << release, remote, crowdinYml, pendingDel, exitCode,
                  handlerRan, selected, pruning, seen >>

\* the first n versions of the loop have been fetched and written
LoopWrites(versions, n, docs, pass) ==
  LET done == SeqRange(SubSeq(versions, 1, n))
  IN  /\ content' = WriteFiles(content, done, DocPaths(docs))
      /\ written' = written \cup Log(pass, done, Own, docs)

fetchAPIDocsFromSupportedVersions ==
  /\ pc = "fetchAPIDocsFromSupportedVersions"
  /\ LET versions == packageJson.supportedVersions
     IN  /\ seen' = [seen EXCEPT !.apiLoop = versions]
         /\ \/ /\ LoopWrites(versions, Len(versions), ApiDocs(remoteDocs),
                             "api")
               /\ Resolve("fetchAPIDocsFromSupportedVersions")
            \/ \E k \in 1..Len(versions) :
                 /\ LoopWrites(versions, k - 1, ApiDocs(remoteDocs), "api")
                 /\ Reject("fetchAPIDocsFromSupportedVersions")
  /\ UNCHANGED << release, remote, packageJson, pkgFile, crowdinYml,
                  pendingDel, exitCode, handlerRan, selected, pruning >>

ApiJsonName == "electron-api.json"

\* release.assets.find(asset => asset.name === 'electron-api.json')
HasApiAsset(rel) == \E asset \in rel.assets : asset = ApiJsonName

fetchApiData ==
  /\ pc = "fetchApiData"
  /\ \/ /\ HasApiAsset(release)
        /\ content' = WriteFiles(content, {current}, {s_electron_api_json})
        /\ written' = written \cup
             Log("asset", {release.tag_name}, current, {s_electron_api_json})
        /\ Resolve("fetchApiData")
     \/ /\ Reject("fetchApiData")
        /\ UNCHANGED << content, written >>
  /\ UNCHANGED << release, remote, packageJson, pkgFile, crowdinYml,
                  pendingDel, exitCode, handlerRan, selected, pruning, seen >>

RemoteMasterCommit == "sha-of-master"

getMasterBranchCommit ==
  /\ pc = "getMasterBranchCommit"
  /\ \/ /\ packageJson' =
             SetKey(packageJson, "electronMasterBranchCommit",
                    RemoteMasterCommit)
        /\ pkgFile' = packageJson'
        /\ Resolve("getMasterBranchCommit")
     \/ /\ Reject("getMasterBranchCommit")
        /\ UNCHANGED << packageJson, pkgFile >>
  /\ UNCHANGED << release, remote, content, crowdinYml, pendingDel, exitCode,
                  handlerRan, selected, pruning, written, seen >>

fetchTutorialsFromMasterBranch ==
  /\ pc = "fetchTutorialsFromMasterBranch"
  /\ \/ /\ content' =
             WriteFiles(content, {current}, DocPaths(TutorialDocs(remoteDocs)))
        /\ written' = written \cup
             Log("tutorial", {master}, current, TutorialDocs(remoteDocs))
        /\ Resolve("fetchTutorialsFromMasterBranch")
     \/ /\ Reject("fetchTutorialsFromMasterBranch")
        /\ UNCHANGED << content, written >>
  /\ UNCHANGED << release, remote, packageJson, pkgFile, crowdinYml,
                  pendingDel, exitCode, handlerRan, selected, pruning, seen >>

fetchTutorialsFromSupportedBranch ==
  /\ pc = "fetchTutorialsFromSupportedBranch"
  /\ LET versions == packageJson.supportedVersions
     IN  /\ seen' = [seen EXCEPT !.tutorialLoop = versions]
         /\ \/ /\ LoopWrites(versions, Len(versions),
                             TutorialDocs(remoteDocs), "tutorial")
               /\ Resolve("fetchTutorialsFromSupportedBranch")
            \/ \E k \in 1..Len(versions) :
                 /\ LoopWrites(versions, k - 1, TutorialDocs(remoteDocs),
                               "tutorial")
                 /\ Reject("fetchTutorialsFromSupportedBranch")
  /\ UNCHANGED << release, remote, packageJson, pkgFile, crowdinYml,
                  pendingDel, exitCode, handlerRan, selected, pruning >>

fetchWebsiteContent ==
  /\ pc = "fetchWebsiteContent"
  /\ \/ /\ content' = WriteFiles(content, {current}, {s_website_locale_yml})
        /\ written' = written \cup
             Log("website", {master}, current, {s_website_locale_yml})
        /\ Resolve("fetchWebsiteContent")
     \/ /\ Reject("fetchWebsiteContent")
        /\ UNCHANGED << content, written >>
  /\ UNCHANGED << release, remote, packageJson, pkgFile, crowdinYml,
                  pendingDel, exitCode, handlerRan, selected, pruning, seen >>

(***************************************************************************)
(* A whole run, from every content tree and every remote answer within     *)
(* the bounds.                                                             *)
(***************************************************************************)
RunTags == { t_v3_1_0, t_v4_0_1 }
RunBranches == { b_2_0_x, b_3_0_x, b_3_1_x, b_4_0_x }
DiskVersions == { b_1_8_x, b_2_0_x, b_3_0_x, b_3_1_x }
AssetSets == { {"electron.d.ts", ApiJsonName}, {"electron.d.ts"} }
PreviousTag == << "v", "3", ".", "0", ".", "9" >>
PreviousCommit == "sha-of-last-run"

Protected(names) == { [name |-> n, protected |-> TRUE] : n \in names }

PreviousTable == << b_1_8_x >>

\* What a run starts from: the remote answers, and what earlier runs left
\* (package.json, crowdin.yml, current and the version directories, each
\* with a file of an earlier run).
Start(tag, assets, resp, docs, disk) ==
  /\ remoteRelease = [tag_name |-> tag, assets |-> assets]
  /\ remoteBranches = resp
  /\ remoteDocs = docs
  /\ packageJson = [supportedVersions |-> SortStrings(disk),
                    electronLatestStableTag |-> PreviousTag,
                    electronMasterBranchCommit |-> PreviousCommit]
  /\ pkgFile = packageJson
  /\ content = [d \in disk \cup {current} |-> {DocPath(f_old)}]
  /\ crowdinYml = PreviousTable
  /\ pendingDel = NoDel
  /\ exitCode = NotExited
  /\ handlerRan = FALSE
  /\ selected = NotYet
  /\ onDisk = {}
  /\ pruned = {}
  /\ pruneEffectAt = Nowhere
  /\ written = {}
  /\ seen = [delContent |-> NotYet, apiLoop |-> NotYet,
             tutorialLoop |-> NotYet]
  /\ failures = {}
  /\ completed = 0
  /\ ranAfterFailure = FALSE

Init ==
  \E tag \in RunTags, assets \in AssetSets,
     branches \in { B \in SUBSET RunBranches : Cardinality(B) <= MaxRemote },
     docs \in { D \in SUBSET DocNames :
                  Cardinality(D) + 1 >= Cardinality(DocNames) },
     disk \in { D \in SUBSET DiskVersions : Cardinality(D) <= MaxDisk } :
    /\ pc = "fetchRelease"
    /\ release = NoRelease
    /\ Start(tag, assets, Protected(branches), docs, disk)

Next ==
  \/ fetchRelease
  \/ getSupportedBranches
  \/ delUnsupportedBranches
  \/ delResolves
  \/ delRejects
  \/ delContent
  \/ fetchAPIDocsFromLatestStableRelease
  \/ fetchAPIDocsFromSupportedVersions
  \/ fetchApiData
  \/ getMasterBranchCommit
  \/ fetchTutorialsFromMasterBranch
  \/ fetchTutorialsFromSupportedBranch
  \/ fetchWebsiteContent
  \/ mainCatch
  \/ processExit

Spec == Init /\ [][Next]_vars

(***************************************************************************)
(* The Branch Selector alone: getSupportedBranches applied to every        *)
(* release tag and every branch list within the bounds.                    *)
(***************************************************************************)
SelTags == { t_v3_1_0, t_v4_0_1, t_v2_0_16, t_v10_1_0, t_v10d1d0 }

SelBranches ==
  { b_1_8_x, b_2_0_x, b_3_0_x, b_3_1_x, b_4_0_x, b_5_0_x, b_10_1_x,
    b_8_x_y, b_9_x_y, b_11_x_y, b_v1_2_x, master }

\* a branch list: its names, and which of them are not protected
Response(names, open) ==
  { [name |-> n, protected |-> n \notin open] : n \in names }

InitSel ==
  \E tag \in SelTags,
     names \in { B \in SUBSET SelBranches : Cardinality(B) <= MaxBranches } :
    \E open \in { U \in SUBSET names : Cardinality(U) <= MaxUnprotected } :
      /\ pc = "getSupportedBranches"
      /\ release = [tag_name |-> tag, assets |-> {ApiJsonName}]
      /\ Start(tag, {ApiJsonName}, Response(names, open), {f_api_app}, {})

NextSel ==
  \/ getSupportedBranches
  \/ mainCatch

SpecSel == InitSel /\ [][NextSel]_vars

(***************************************************************************)
(* Claims about the Branch Selector (specification SpecSel).              *)
(***************************************************************************)
\* the selector has run and written its list
Selected == selected # NotYet

IsSeparator(c) == c \in {".", "-"}

\* The release branch of a tag v<major><sep><minor><sep><patch>, as the
\* claims mean it: <major>-<minor>-x.
ReleaseBranch(tag) ==
  LET body == Tail(tag)
      seps == { i \in 1..Len(body) : IsSeparator(body[i]) }
      i1 == CHOOSE i \in seps : \A j \in seps : i <= j
      i2 == CHOOSE i \in seps \ {i1} : \A j \in seps \ {i1} : i <= j
  IN  SubSeq(body, 1, i1 - 1) \o << "-" >> \o SubSeq(body, i1 + 1, i2 - 1)
        \o << "-", "x" >>

\* the names the selector considers: protected, and holding the pattern
Matching == { r.name : r \in { b \in remoteBranches :
                                  b.protected /\ MatchesVersionPattern(b.name) } }

\* C3: the list getSupportedBranches persists as supportedVersions has at
\* most N = 4 names, no two names share a leading digit, and it holds
\* neither the branch of the released version (the tag as major-minor-x)
\* nor "current".
C3_SelectorBounds ==
  Selected =>
    /\ pkgFile.supportedVersions = selected
    /\ Len(selected) <= NUM_SUPPORTED_VERSIONS
    /\ \A i, j \in 1..Len(selected) :
         i # j => selected[i][1] # selected[j][1]
    /\ ReleaseBranch(release.tag_name) \notin SeqRange(selected)
    /\ current \notin SeqRange(selected)

ScenarioC7 ==
  /\ release.tag_name = t_v10d1d0
  /\ remoteBranches = Protected({b_8_x_y, b_9_x_y, b_10_1_x, b_11_x_y})

Groups == { n[1] : n \in Matching }

\* the lexicographically last matching name of a group
LastOf(g) ==
  CHOOSE n \in Matching :
    /\ n[1] = g
    /\ \A m \in Matching : (m[1] = g /\ m # n) => StrLess(m, n)

\* group g comes before group h: digits in ascending order, then the rest
Before(g, h) ==
  \/ IsDigit(g) /\ ~IsDigit(h)
  \/ IsDigit(g) = IsDigit(h) /\ Code(g) < Code(h)

\* group g is one of the last N groups
AmongLastN(g) ==
  Cardinality({ h \in Groups : Before(g, h) }) < NUM_SUPPORTED_VERSIONS

Excluded == { CurrentVersion(release.tag_name), current }

Supported == SeqRange(selected)

\* delUnsupportedBranches has read content/
Pruning == onDisk # {}

\* the versions on disk that the new list no longer holds
Removed == (onDisk \ {current}) \ Supported

\* C1: when versions on disk are no longer in the supported list,
\* delUnsupportedBranches deletes exactly their directories, and never
\* current. (Stated of the runs whose del has settled without failing.)
C1_PrunerDeletesRemoved ==
  (Pruning /\ Removed # {} /\ ~pendingDel.active /\ "del" \notin failures)
    => (pruned = Removed /\ current \notin pruned)

\* the directories on disk are the supported versions and current
UnchangedList == Pruning /\ onDisk = Supported \cup {current}

\* C2: when the directories on disk are exactly the supported versions and
\* current, delUnsupportedBranches deletes nothing, starts no deletion, and
\* leaves crowdin.yml and the directories directly under content/ as they
\* were.
C2_UnchangedListNoDeletion ==
  UnchangedList =>
    /\ ~pendingDel.active
    /\ pruned = {}
    /\ pruneEffectAt = Nowhere
    /\ crowdinYml = PreviousTable
    /\ onDisk \subseteq DOMAIN content
    /\ (pc = "delContent" => DOMAIN content = onDisk)

C2_Witness ==
  /\ UnchangedList
  /\ Len(selected) = 2
  /\ packageJson.supportedVersions # PreviousTable
  /\ pc = "returned"

\* C4: a failure of any operation the run starts reaches the top-level
\* handler, which ends the process with status 1; no step runs after the
\* failing one; status 0 occurs only when all eleven steps completed.
C4_FailureFunnel ==
  /\ failures # {} => pc \in {"rejected", "exited"}
  /\ (failures # {} /\ pc = "exited")
       => (handlerRan /\ exitCode = ExitStatus(1))
  /\ ~ranAfterFailure
  /\ exitCode = ExitStatus(0) => (completed = Len(Steps) /\ failures = {})

WrittenBy(pass, ref, f) ==
  \E w \in written : w.pass = pass /\ w.ref = ref /\ w.file = f

AllStepsDone == completed = Len(Steps)

\* C5 as stated: every document fetched for master or for a supported
\* branch is written by exactly one of the API pass and the tutorial pass,
\* whatever its filename; for the latest release only the API pass applies.
C5_PartitionAsStated ==
  AllStepsDone =>
    /\ \A ref \in Supported \cup {master}, f \in remoteDocs :
         WrittenBy("api", ref, f) # WrittenBy("tutorial", ref, f)
    /\ \A f \in remoteDocs : ~WrittenBy("tutorial", release.tag_name, f)

\* C5 as the code has it: no document is written by both passes. A
\* document of a supported branch is written by the API pass exactly when
\* its filename starts with api/, by the tutorial pass exactly when it
\* neither starts with api/ nor contains images/ (so by neither when it
\* contains images/ without the api/ prefix). Master gets the tutorial pass
\* only, the latest release the API pass only.
C5_Partition ==
  AllStepsDone =>
    /\ \A ref \in Supported, f \in remoteDocs :
         /\ WrittenBy("api", ref, f) <=> StartsWith(f, s_api)
         /\ WrittenBy("tutorial", ref, f)
              <=> (~StartsWith(f, s_api) /\ ~Includes(f, s_images))
         /\ ~(WrittenBy("api", ref, f) /\ WrittenBy("tutorial", ref, f))
    /\ \A f \in remoteDocs :
         /\ ~WrittenBy("api", master, f)
         /\ WrittenBy("tutorial", master, f)
              <=> (~StartsWith(f, s_api) /\ ~Includes(f, s_images))
         /\ ~WrittenBy("tutorial", release.tag_name, f)
         /\ WrittenBy("api", release.tag_name, f) <=> StartsWith(f, s_api)

\* both passes ran over a supported branch whose documents hold an image
\* below api/, an image outside it, and one document of each pass
C5_Witness ==
  /\ AllStepsDone
  /\ {f_api_app, f_api_images_a, f_images_b, f_t_images_c, f_t_d}
       \subseteq remoteDocs
  /\ \E ref \in Supported :
       /\ WrittenBy("api", ref, f_api_images_a)
       /\ WrittenBy("tutorial", ref, f_t_d)
       /\ ~WrittenBy("api", ref, f_images_b)
       /\ ~WrittenBy("tutorial", ref, f_images_b)

\* the files written during this run below content/<d>/en-US
WrittenTo(d) == { w.path : w \in { x \in written : x.dir = d } }

\* C6: after a run that ends with status 0, content/current/en-US and the
\* en-US directory of every supported version hold exactly the files
\* written during this run.
C6_NoStaleFiles ==
  exitCode = ExitStatus(0) =>
    \A d \in {current} \cup Supported :
      IF d \in DOMAIN content THEN content[d] = WrittenTo(d)
      ELSE WrittenTo(d) = {}

\* the steps after delContent, and main() having returned
AfterDelContent ==
  { Steps[i] : i \in (StepIndex("delContent") + 1)..Len(Steps) }
    \cup {"returned"}

\* C8: the steps run strictly one after another: no deletion of the pruner
\* takes effect after delContent has finished.
C8_StrictSequencing ==
  pruned # {} => pruneEffectAt \notin AfterDelContent

\* C10: from the return of getSupportedBranches on, the in-memory
\* supportedVersions is the list the selector computed and persisted in
\* this run; delContent and both fetch loops go over that list, which never
\* holds "current"; the writes of electronLatestStableTag and of
\* electronMasterBranchCommit leave the other keys of package.json alone.
C10_SupportedVersionsStable ==
  Selected =>
    /\ packageJson.supportedVersions = selected
    /\ pkgFile.supportedVersions = selected
    /\ current \notin SeqRange(packageJson.supportedVersions)
    /\ seen.delContent \in {NotYet, selected}
    /\ seen.apiLoop \in {NotYet, selected}
    /\ seen.tutorialLoop \in {NotYet, selected}
    /\ pkgFile.electronLatestStableTag \in {PreviousTag, release.tag_name}
    /\ completed >= StepIndex("fetchAPIDocsFromLatestStableRelease")
         => pkgFile.electronLatestStableTag = release.tag_name
    /\ pkgFile.electronMasterBranchCommit =
         IF completed >= StepIndex("getMasterBranchCommit")
         THEN RemoteMasterCommit ELSE PreviousCommit

\* a whole run whose list differs from the previous run's, in which the
\* pruner pushed and popped "current" and every loop went over the list
C10_Witness ==
  /\ pc = "exited" /\ exitCode = ExitStatus(0)
  /\ pruneEffectAt # Nowhere
  /\ Len(selected) = 2
  /\ seen.delContent = selected
  /\ seen.tutorialLoop = selected
  /\ crowdinYml = selected

=============================================================================
